---- MODULE Spec2Model ----
(***************************************************************************)
(* A model of the DemoApp backend (src/backend/main.py): a FastAPI service *)
(* over one SQLite file with three tables (users, messages, documents) and *)
(* HS256 tokens.                                                           *)
(*                                                                         *)
(* Every route is an `async def` that never awaits, so inside one server   *)
(* process a handler runs from its first line to its response without      *)
(* another handler running in between: in SpecAuth, SpecChat and SpecDocs  *)
(* one action is one whole handler.  SpecConc models several server        *)
(* processes on the same database file, where the statements of different  *)
(* signup requests interleave and SQLite's file lock is what orders them.  *)
(*                                                                         *)
(* Storage faults (an unreadable file, a full disk, a writer that gives up *)
(* waiting for the lock) are not modelled: the handlers turn each of them  *)
(* into a 500.  The model starts after startup, with the imports of the    *)
(* file taken to resolve.                                                  *)
(*                                                                         *)
(* The clock moves in SpecAuth and SpecChat, whose handlers' results       *)
(* depend on it; it stands still in SpecDocs and SpecConc, where it only   *)
(* fills created_at and exp.                                               *)
(*                                                                         *)
(* Text that is only stored, compared and echoed (emails, passwords,       *)
(* names, filenames, chat messages) is a TLA+ string.  Document contents   *)
(* and search queries are matched character by character and are tuples   *)
(* of one-character strings.                                               *)
(***************************************************************************)
EXTENDS Integers, Sequences, FiniteSets, TLC

VARIABLES
    users,      \* table users, in rowid order
    messages,   \* table messages, in rowid order
    documents,  \* table documents, in rowid order
    clock,      \* the wall clock, in ticks of 1/TicksPerSecond second
    resp,       \* the last request handled and the response it got
    held,       \* per email, the token its signup returned to the client
    pc,         \* SpecConc: where each server process is in signup
    req,        \* SpecConc: the signup request each process handles
    conn,       \* SpecConc: the state of each process's connection
    writer,     \* SpecConc: the process whose connection holds the write lock
    pending,    \* SpecConc: the rows inserted and not yet committed
    presp       \* SpecConc: the response of each finished request

vars == <<users, messages, documents, clock, resp, held, pc, req, conn,
          writer, pending, presp>>

seqVars == <<pc, req, conn, writer, pending, presp>>

----------------------------------------------------------------------------
(* Bounds of the model *)

\* the clock resolution: ticks per second (datetime has 10^6)
TicksPerSecond == 2

\* the instants explored after time 0, and after the token lifetime
MaxTicks == 2

\* rows in the messages table
MaxMsgs == 3

\* rows in the documents table
MaxDocs == 2

\* server processes handling a signup each in SpecConc
NumProcs == 3

----------------------------------------------------------------------------
(* Inputs *)

Emails == {"alice@x.com", "bob@x.com"}

Names == {"Alice"}

Passwords == {"p1", "P1", "wrong"}

UserIds == {1, 2}

Texts == {"hi", "yo"}

Filenames == {"a.txt", "b.txt"}

None == [none |-> TRUE]

----------------------------------------------------------------------------
(* The clock *)

\* timedelta(days=7), in seconds
TokenLifetime == 7 * 24 * 3600

\* the instants the model looks at: the first ticks, and the ticks around
\* the end of the lifetime of a token issued in the first ticks
Times ==
    (0 .. MaxTicks)
    \cup ((TokenLifetime * TicksPerSecond - 1)
            .. (TokenLifetime * TicksPerSecond + MaxTicks))

\* the whole second an instant lies in: timegm(exp.utctimetuple())
Second(t) == t \div TicksPerSecond

----------------------------------------------------------------------------
(* Token service *)

JWT_SECRET == "your-secret-key-change-in-production"

\* HMAC-SHA256 of the payload under a key, as an injective function of both
Sign(payload, key) == <<"HS256", key, payload>>

\* jwt.encode(payload, key, algorithm="HS256"); a datetime exp is encoded
\* as whole seconds since the epoch
JwtEncode(payload, key) ==
    [alg |-> "HS256", payload |-> payload, sig |-> Sign(payload, key)]

\* create_token with the exp claim kept at the clock's own resolution
create_token_ticks(email, user_id, now) ==
    JwtEncode([email |-> email, user_id |-> user_id,
               exp |-> now + TokenLifetime * TicksPerSecond], JWT_SECRET)

create_token(email, user_id, now) ==
    JwtEncode([email |-> email, user_id |-> user_id,
               exp |-> Second(now) + TokenLifetime], JWT_SECRET)

\* jwt.decode without the expiry check
JwtDecodeNoExp(token, key, now) ==
    IF token.alg # "HS256"
    THEN [ok |-> FALSE, error |-> "InvalidAlgorithmError"]
    ELSE IF token.sig # Sign(token.payload, key)
    THEN [ok |-> FALSE, error |-> "InvalidSignatureError"]
    ELSE [ok |-> TRUE, payload |-> token.payload]

\* jwt.decode(token, key, algorithms=["HS256"]): the algorithm must be the
\* allowed one, the signature must be the key's, and exp must lie in the
\* future (PyJWT 2: "exp <= now" is expired, no leeway)
JwtDecode(token, key, now) ==
    IF token.alg # "HS256"
    THEN [ok |-> FALSE, error |-> "InvalidAlgorithmError"]
    ELSE IF token.sig # Sign(token.payload, key)
    THEN [ok |-> FALSE, error |-> "InvalidSignatureError"]
    ELSE IF token.payload.exp * TicksPerSecond <= now
    THEN [ok |-> FALSE, error |-> "ExpiredSignatureError"]
    ELSE [ok |-> TRUE, payload |-> token.payload]

\* the bare except: every failure becomes the same HTTPException
verify_token(token, now) ==
    LET d == JwtDecode(token, JWT_SECRET, now)
    IN  IF d.ok
        THEN [status |-> 200, claims |-> d.payload]
        ELSE [status |-> 401, detail |-> "Invalid token"]

----------------------------------------------------------------------------
(* Storage layer: table users *)

\* the UNIQUE constraint on users.email never rejecting an insert
EmailTakenNever(tbl, email) == FALSE

\* the UNIQUE constraint on users.email (BINARY collation)
EmailTaken(tbl, email) == \E i \in 1..Len(tbl) : tbl[i].email = email

Max(S) == CHOOSE m \in S : \A x \in S : x <= m

\* a rowid that restarts at 1
NextIdOne(tbl) == 1

\* INTEGER PRIMARY KEY: one more than the largest rowid in the table
NextId(tbl) ==
    IF Len(tbl) = 0 THEN 1 ELSE Max({tbl[i].id : i \in 1..Len(tbl)}) + 1

UserRow(tbl, name, email, password, now) ==
    [id |-> NextId(tbl), email |-> email, name |-> name,
     password |-> password, created_at |-> now]

\* SELECT ... FROM users WHERE email = ?, fetchone(): the row, or nothing
SelectUserByEmail(tbl, email) ==
    IF \E i \in 1..Len(tbl) : tbl[i].email = email
    THEN tbl[CHOOSE i \in 1..Len(tbl) : tbl[i].email = email]
    ELSE None

\* the id of the row inserted last, whatever its email
SelectIdOfLastRow(tbl, email) == tbl[Len(tbl)].id

\* SELECT id FROM users WHERE email = ?, fetchone()[0]
SelectIdByEmail(tbl, email) == SelectUserByEmail(tbl, email).id

----------------------------------------------------------------------------
(* API layer: authentication *)

TokenResponse(token, id, email, name) ==
    [status |-> 200, access_token |-> token, token_type |-> "bearer",
     user |-> [id |-> id, email |-> email, name |-> name]]

\* POST /api/auth/signup
signup(name, email, password) ==
    /\ IF EmailTaken(users, email)
       THEN \* execute raises IntegrityError: conn.close() is skipped, and
            \* the connection stays open until the runtime frees it
            /\ users' = users
            /\ held' = held
            /\ resp' = [op |-> "signup", email |-> email, at |-> clock,
                        conn |-> "open",
                        out |-> [status |-> 400,
                                 detail |-> "Email already exists"]]
       ELSE LET tbl == Append(users,
                              UserRow(users, name, email, password, clock))
                user_id == SelectIdByEmail(tbl, email)
                token == create_token(email, user_id, clock)
            IN  /\ users' = tbl
                /\ held' = [held EXCEPT
                              ![email] = [token |-> token, at |-> clock]]
                /\ resp' = [op |-> "signup", email |-> email, at |-> clock,
                            conn |-> "closed",
                            out |-> TokenResponse(token, user_id, email,
                                                  name)]
    /\ UNCHANGED <<messages, documents, clock>>
    /\ UNCHANGED seqVars

\* a comparison that ignores the case of the letters
FoldCase(s) == IF s = "P1" THEN "p1" ELSE s

PasswordDiffersFolded(stored, given) == FoldCase(stored) # FoldCase(given)

\* user[2] != request.password
PasswordDiffers(stored, given) == stored # given

\* POST /api/auth/login
login(email, password) ==
    /\ LET user == SelectUserByEmail(users, email)
       IN  resp' = [op |-> "login", email |-> email,
                    password |-> password, at |-> clock, conn |-> "closed",
                    out |-> IF user = None
                               \/ PasswordDiffers(user.password, password)
                            THEN [status |-> 401,
                                  detail |-> "Invalid email or password"]
                            ELSE TokenResponse(
                                   create_token(email, user.id, clock),
                                   user.id, email, user.name)]
    /\ UNCHANGED <<users, messages, documents, clock, held>>
    /\ UNCHANGED seqVars

\* the tokens handed to verify_token: one a signup issued, its claims
\* signed with another secret, and its claims unsigned
Presented(good) ==
    { [kind |-> "issued", token |-> good],
      [kind |-> "other secret",
       token |-> JwtEncode(good.payload, "another-secret")],
      [kind |-> "undecodable",
       token |-> [alg |-> "none", payload |-> good.payload, sig |-> <<>>]] }

\* verify_token(token), called at the current instant
verify ==
    /\ \E email \in Emails :
        /\ held[email] # None
        /\ \E p \in Presented(held[email].token) :
            resp' = [op |-> "verify", email |-> email,
                     user_id |-> held[email].token.payload.user_id,
                     kind |-> p.kind, issued_at |-> held[email].at,
                     at |-> clock, out |-> verify_token(p.token, clock)]
    /\ UNCHANGED <<users, messages, documents, clock, held>>
    /\ UNCHANGED seqVars

\* time passes: one tick
Tick ==
    /\ clock + 1 \in Times
    /\ clock' = clock + 1
    /\ UNCHANGED <<users, messages, documents, resp, held>>
    /\ UNCHANGED seqVars

\* time passes: a tick less than the lifetime of a token
AlmostAWeek ==
    /\ clock + TokenLifetime * TicksPerSecond - 1 \in Times
    /\ clock' = clock + TokenLifetime * TicksPerSecond - 1
    /\ UNCHANGED <<users, messages, documents, resp, held>>
    /\ UNCHANGED seqVars

----------------------------------------------------------------------------
(* API layer: chat messages *)

MessageRow(tbl, user_id, message, now) ==
    [id |-> NextId(tbl), user_id |-> user_id, message |-> message,
     response |-> "Response to: " \o message, created_at |-> now]

\* POST /api/chat
chat(message, user_id) ==
    /\ Len(messages) < MaxMsgs
    /\ LET row == MessageRow(messages, user_id, message, clock)
       IN  /\ messages' = Append(messages, row)
           /\ resp' = [op |-> "chat", user_id |-> user_id, at |-> clock,
                       conn |-> "closed",
                       out |-> [status |-> 200, message |-> message,
                                response |-> row.response,
                                timestamp |-> clock]]
    /\ UNCHANGED <<users, documents, clock, held>>
    /\ UNCHANGED seqVars

\* the orders in which the rows at `rows` (positions in tbl) can come out of
\* ORDER BY created_at DESC: rows with equal created_at in any order
OrderByCreatedAtDesc(tbl, rows) ==
    { f \in [1..Cardinality(rows) -> rows] :
        /\ \A j, k \in 1..Cardinality(rows) : j # k => f[j] # f[k]
        /\ \A j, k \in 1..Cardinality(rows) :
             j < k => tbl[f[j]].created_at >= tbl[f[k]].created_at }

MessageEntry(row) ==
    [message |-> row.message, response |-> row.response,
     created_at |-> row.created_at]

\* GET /api/messages/{user_id}
get_messages(user_id) ==
    /\ LET rows == {i \in 1..Len(messages) : messages[i].user_id = user_id}
       IN  \E f \in OrderByCreatedAtDesc(messages, rows) :
             resp' = [op |-> "get_messages", user_id |-> user_id,
                      at |-> clock, conn |-> "closed",
                      out |-> [status |-> 200,
                               messages |->
                                 [k \in 1..Cardinality(rows) |->
                                    MessageEntry(messages[f[k]])]]]
    /\ UNCHANGED <<users, messages, documents, clock, held>>
    /\ UNCHANGED seqVars

----------------------------------------------------------------------------
(* API layer: documents and search *)

\* the characters of document contents and of queries
Chars == {"a", "A", "b", "%", "_"}

Contents == { <<"A", "b">>, <<"a", "%", "b">>, <<"b", "_", "a">> }

Queries ==
    { <<>>, <<"b">>, <<"A", "b">>, <<"a", "b">>, <<"b", "b">>, <<"%">>,
      <<"%", "b">>, <<"_">>, <<"b", "_">>, <<"a", "_">>, <<"a", "%", "b">>,
      <<"b", "%", "b">> }

DocRow(tbl, user_id, filename, content, now) ==
    [id |-> NextId(tbl), user_id |-> user_id, filename |-> filename,
     content |-> content, created_at |-> now]

\* POST /api/documents/upload
upload_document(user_id, filename, content) ==
    /\ Len(documents) < MaxDocs
    /\ documents' = Append(documents,
                           DocRow(documents, user_id, filename, content,
                                  clock))
    /\ resp' = [op |-> "upload", user_id |-> user_id, at |-> clock,
                conn |-> "closed",
                out |-> [status |-> 200,
                         body |-> [status |-> "success",
                                   filename |-> filename]]]
    /\ UNCHANGED <<users, messages, clock, held>>
    /\ UNCHANGED seqVars

\* WHERE user_id = ? matching every row
OfAnyUser(row, user_id) == TRUE

\* WHERE user_id = ?
OfUser(row, user_id) == row.user_id = user_id

DocumentEntry(row) ==
    [id |-> row.id, filename |-> row.filename, created_at |-> row.created_at]

\* the rows of tbl at the positions in keep, in rowid order
RECURSIVE SelectRows(_, _, _)
SelectRows(tbl, keep, i) ==
    IF i > Len(tbl) THEN <<>>
    ELSE IF i \in keep THEN <<tbl[i]>> \o SelectRows(tbl, keep, i + 1)
    ELSE SelectRows(tbl, keep, i + 1)

\* GET /api/documents/{user_id}
get_documents(user_id) ==
    /\ LET rows == SelectRows(documents,
                              {i \in 1..Len(documents) :
                                 OfUser(documents[i], user_id)}, 1)
       IN  resp' = [op |-> "get_documents", user_id |-> user_id,
                    at |-> clock, conn |-> "closed",
                    out |-> [status |-> 200,
                             documents |-> [k \in 1..Len(rows) |->
                                              DocumentEntry(rows[k])]]]
    /\ UNCHANGED <<users, messages, documents, clock, held>>
    /\ UNCHANGED seqVars

\* SQLite compares the ASCII letters of a LIKE pattern without their case
AsciiLower(c) ==
    CASE c = "A" -> "a"
      [] c = "B" -> "b"
      [] OTHER -> c

\* a LIKE that compares letters with their case
LikeCharExact(p, c) == p = "_" \/ p = c

\* one pattern character other than % against one character: _ matches any
LikeChar(p, c) == p = "_" \/ AsciiLower(p) = AsciiLower(c)

\* content LIKE pattern, SQLite's default: % matches any run of characters,
\* _ any one character, no escape character
RECURSIVE Like(_, _)
Like(pattern, text) ==
    IF pattern = <<>> THEN text = <<>>
    ELSE IF Head(pattern) = "%"
    THEN Like(Tail(pattern), text)
         \/ (text # <<>> /\ Like(pattern, Tail(text)))
    ELSE /\ text # <<>>
         /\ LikeChar(Head(pattern), Head(text))
         /\ Like(Tail(pattern), Tail(text))

ExcerptLen == 200

\* r[1][:200] if len(r[1]) > 200 else r[1]
Excerpt(content) ==
    IF Len(content) > ExcerptLen THEN SubSeq(content, 1, ExcerptLen)
    ELSE content

\* POST /api/search
search(user_id, query) ==
    /\ LET rows == SelectRows(documents,
                              {i \in 1..Len(documents) :
                                 /\ OfUser(documents[i], user_id)
                                 /\ Like(<<"%">> \o query \o <<"%">>,
                                         documents[i].content)}, 1)
       IN  resp' = [op |-> "search", user_id |-> user_id, query |-> query,
                    at |-> clock, conn |-> "closed",
                    out |-> [status |-> 200, query |-> query,
                             results |-> [k \in 1..Len(rows) |->
                                            [filename |-> rows[k].filename,
                                             excerpt |->
                                               Excerpt(rows[k].content)]]]]
    /\ UNCHANGED <<users, messages, documents, clock, held>>
    /\ UNCHANGED seqVars

----------------------------------------------------------------------------
(* Signup, statement by statement, in several server processes *)

Procs == 1..NumProcs

\* SQLite lets one connection at a time write: an INSERT waits while another
\* connection holds the write lock
CanWrite(p) == writer \in {0, p}

\* a request arrives: sqlite3.connect, conn.cursor
connect(p, name, email, password) ==
    /\ pc[p] = "idle"
    /\ req' = [req EXCEPT ![p] = [name |-> name, email |-> email,
                                  password |-> password]]
    /\ conn' = [conn EXCEPT ![p] = "open"]
    /\ pc' = [pc EXCEPT ![p] = "insert"]
    /\ UNCHANGED <<users, messages, documents, clock, resp, held, writer,
                   pending, presp>>

\* c.execute("INSERT INTO users ..."): the connection takes the write lock
\* and opens a transaction; a taken email raises IntegrityError, which
\* leaves the connection open with its transaction
insert(p) ==
    /\ pc[p] = "insert"
    /\ CanWrite(p)
    /\ writer' = p
    /\ IF EmailTaken(users, req[p].email)
       THEN /\ presp' = [presp EXCEPT
                           ![p] = [status |-> 400,
                                   detail |-> "Email already exists"]]
            /\ pc' = [pc EXCEPT ![p] = "done"]
            /\ UNCHANGED pending
       ELSE /\ pending' = [pending EXCEPT
                             ![p] = UserRow(users, req[p].name, req[p].email,
                                            req[p].password, clock)]
            /\ pc' = [pc EXCEPT ![p] = "commit"]
            /\ UNCHANGED presp
    /\ UNCHANGED <<users, messages, documents, clock, resp, held, req, conn>>

\* conn.commit(): the row becomes visible and the lock is released
commit(p) ==
    /\ pc[p] = "commit"
    /\ users' = Append(users, pending[p])
    /\ pending' = [pending EXCEPT ![p] = None]
    /\ writer' = IF writer = p THEN 0 ELSE writer
    /\ pc' = [pc EXCEPT ![p] = "lookup"]
    /\ UNCHANGED <<messages, documents, clock, resp, held, req, conn, presp>>

\* the SELECT of the id, conn.close(), create_token and the response
lookup(p) ==
    /\ pc[p] = "lookup"
    /\ LET user_id == SelectIdByEmail(users, req[p].email)
       IN  presp' = [presp EXCEPT
                       ![p] = TokenResponse(
                                create_token(req[p].email, user_id, clock),
                                user_id, req[p].email, req[p].name)]
    /\ conn' = [conn EXCEPT ![p] = "closed"]
    /\ pc' = [pc EXCEPT ![p] = "done"]
    /\ UNCHANGED <<users, messages, documents, clock, resp, held, req,
                   writer, pending>>

\* the runtime frees the connection object a finished handler left open:
\* its transaction is rolled back and its lock released
finalize(p) ==
    /\ pc[p] = "done"
    /\ conn[p] = "open"
    /\ conn' = [conn EXCEPT ![p] = "finalized"]
    /\ writer' = IF writer = p THEN 0 ELSE writer
    /\ UNCHANGED <<users, messages, documents, clock, resp, held, pc, req,
                   pending, presp>>

----------------------------------------------------------------------------
(* The service after startup: init_db has created the empty tables *)

Init ==
    /\ users = <<>>
    /\ messages = <<>>
    /\ documents = <<>>
    /\ clock = 0
    /\ resp = [op |-> "startup"]
    /\ held = [e \in Emails |-> None]
    /\ pc = [p \in 1..NumProcs |-> "idle"]
    /\ req = [p \in 1..NumProcs |-> None]
    /\ conn = [p \in 1..NumProcs |-> "none"]
    /\ writer = 0
    /\ pending = [p \in 1..NumProcs |-> None]
    /\ presp = [p \in 1..NumProcs |-> None]

Signup == \E name \in Names, email \in Emails, password \in Passwords :
            signup(name, email, password)

Login == \E email \in Emails, password \in Passwords : login(email, password)

NextAuth == Signup \/ Login \/ verify \/ Tick \/ AlmostAWeek

SpecAuth == Init /\ [][NextAuth]_vars

Chat == \E message \in Texts, user_id \in UserIds : chat(message, user_id)

GetMessages == \E user_id \in UserIds : get_messages(user_id)

NextChat == Chat \/ GetMessages \/ Tick

SpecChat == Init /\ [][NextChat]_vars

Upload == \E user_id \in UserIds, filename \in Filenames,
             content \in Contents :
            upload_document(user_id, filename, content)

GetDocuments == \E user_id \in UserIds : get_documents(user_id)

Search == \E user_id \in UserIds, query \in Queries : search(user_id, query)

NextDocs == Upload \/ GetDocuments \/ Search

SpecDocs == Init /\ [][NextDocs]_vars

Connect == \E p \in Procs, name \in Names, email \in Emails,
              password \in Passwords :
             connect(p, name, email, password)

Insert == \E p \in Procs : insert(p)

Commit == \E p \in Procs : commit(p)

Lookup == \E p \in Procs : lookup(p)

Finalize == \E p \in Procs : finalize(p)

NextConc == Connect \/ Insert \/ Commit \/ Lookup \/ Finalize

SpecConc == Init /\ [][NextConc]_vars

----------------------------------------------------------------------------
(* Properties of signup, login and the token service, under SpecAuth *)

HasEmail(tbl, email) == \E i \in 1..Len(tbl) : tbl[i].email = email

Conflict == [status |-> 400, detail |-> "Email already exists"]

InvalidToken == [status |-> 401, detail |-> "Invalid token"]

\* C1: a signup whose email a users row already carries ends with 400
\* 'Email already exists', returns no access_token and leaves the users
\* table as it was.
C1_DuplicateSignupConflict ==
    [][\A name \in Names, email \in Emails, password \in Passwords :
         (signup(name, email, password) /\ HasEmail(users, email))
         => /\ resp'.out = Conflict
            /\ "access_token" \notin DOMAIN resp'.out
            /\ users' = users]_vars

C1_Witness ==
    /\ resp.op = "signup"
    /\ resp.out.status = 400
    /\ HasEmail(users, resp.email)

\* C2: a signup whose email no users row carries returns 200 and adds
\* exactly one row (email, name, password) whose id no other row has; the
\* token verifies to that email and that id, and the echoed user carries
\* them too.
C2_NewSignupSucceeds ==
    [][\A name \in Names, email \in Emails, password \in Passwords :
         (signup(name, email, password) /\ ~HasEmail(users, email))
         => /\ Len(users') = Len(users) + 1
            /\ \A i \in 1..Len(users) : users'[i] = users[i]
            /\ LET new == users'[Len(users')]
                   seen == verify_token(resp'.out.access_token, clock')
               IN  /\ new.email = email
                   /\ new.name = name
                   /\ new.password = password
                   /\ \A i \in 1..Len(users) : users[i].id # new.id
                   /\ resp'.out.status = 200
                   /\ resp'.out.user =
                        [id |-> new.id, email |-> email, name |-> name]
                   /\ seen.status = 200
                   /\ seen.claims.email = email
                   /\ seen.claims.user_id = new.id]_vars

C2_Witness ==
    /\ resp.op = "signup"
    /\ resp.out.status = 200
    /\ Len(users) = 2
    /\ users[2].email = resp.email
    /\ resp.out.user.id = 2

\* C3: login returns 200 with a token for (email, id of the email's row)
\* exactly when a users row has that email and exactly that password; in
\* every other case it returns 401; it never changes the users table.
C3_LoginExactPassword ==
    [][\A email \in Emails, password \in Passwords :
         login(email, password)
         => /\ users' = users
            /\ IF \E i \in 1..Len(users) :
                    users[i].email = email /\ users[i].password = password
               THEN /\ resp'.out.status = 200
                    /\ resp'.out.access_token.payload.email = email
                    /\ \E i \in 1..Len(users) :
                        /\ users[i].email = email
                        /\ resp'.out.access_token.payload.user_id
                             = users[i].id
               ELSE resp'.out.status = 401]_vars

\* a login refused for the case of a letter alone
C3_Witness ==
    /\ resp.op = "login"
    /\ resp.out.status = 401
    /\ resp.password = "P1"
    /\ \E i \in 1..Len(users) :
        users[i].email = resp.email /\ users[i].password = "p1"

\* C6 as amended: a token issued at instant t verifies, to the same email
\* and user_id, at every instant before the whole second of t plus 7 days,
\* and fails from that instant on; every failure (expiry, another secret,
\* an undecodable token) is the same 401 'Invalid token'.
C6_TokenValidWhileBeforeExp ==
    resp.op = "verify" =>
        IF /\ resp.kind = "issued"
           /\ resp.at
                < (Second(resp.issued_at) + TokenLifetime) * TicksPerSecond
        THEN /\ resp.out.status = 200
             /\ resp.out.claims.email = resp.email
             /\ resp.out.claims.user_id = resp.user_id
        ELSE resp.out = InvalidToken

\* a genuine token refused before 7 days have passed since it was issued
C6_Witness ==
    /\ resp.op = "verify"
    /\ resp.kind = "issued"
    /\ resp.at < resp.issued_at + TokenLifetime * TicksPerSecond
    /\ resp.out = InvalidToken

\* C6 as claimed: the token verifies at every instant up to t + 7 days and
\* fails at every later one.
C6_Original ==
    resp.op = "verify" =>
        IF /\ resp.kind = "issued"
           /\ resp.at <= resp.issued_at + TokenLifetime * TicksPerSecond
        THEN /\ resp.out.status = 200
             /\ resp.out.claims.email = resp.email
             /\ resp.out.claims.user_id = resp.user_id
        ELSE resp.out = InvalidToken

LoginAfterSignup ==
    /\ resp.op = "login"
    /\ resp.out.status = 200
    /\ held[resp.email] # None

\* C7 as amended: the token of a successful login carries the email and
\* user_id of the token the account's signup returned, and the two token
\* values differ exactly when the two calls fall in different clock seconds.
C7_TokensDifferAcrossSeconds ==
    LoginAfterSignup =>
        LET A == held[resp.email].token
            B == resp.out.access_token
        IN  /\ A.payload.email = B.payload.email
            /\ A.payload.user_id = B.payload.user_id
            /\ (A # B) <=> (Second(held[resp.email].at) # Second(resp.at))

\* a login a tick after the signup, in the same second: the same token
C7_Witness ==
    /\ LoginAfterSignup
    /\ held[resp.email].at < resp.at
    /\ held[resp.email].token = resp.out.access_token

\* C7 as claimed: the two token values differ whatever the timing.
C7_Original ==
    LoginAfterSignup =>
        LET A == held[resp.email].token
            B == resp.out.access_token
        IN  /\ A.payload.email = B.payload.email
            /\ A.payload.user_id = B.payload.user_id
            /\ A # B

\* C10: when a handler's response is produced, the handler has closed the
\* connection it opened.
C10_ConnectionClosed ==
    resp.op \in {"signup", "login", "chat", "get_messages", "upload",
                 "get_documents", "search"}
    => resp.conn = "closed"

----------------------------------------------------------------------------
(* Properties of the chat log, under SpecChat *)

\* the entries of user_id's rows, the last inserted first
RECURSIVE NewestFirst(_, _, _)
NewestFirst(tbl, user_id, i) ==
    IF i = 0 THEN <<>>
    ELSE IF tbl[i].user_id = user_id
    THEN <<[message |-> tbl[i].message, response |-> tbl[i].response,
            created_at |-> tbl[i].created_at]>>
         \o NewestFirst(tbl, user_id, i - 1)
    ELSE NewestFirst(tbl, user_id, i - 1)

\* C4: GET /api/messages/{user} returns one entry per chat call of that
\* user and none of another user, a later call's entry before an earlier
\* call's, also when the two calls read the same created_at.
C4_NewestFirst ==
    resp.op = "get_messages" =>
        resp.out.messages = NewestFirst(messages, resp.user_id, Len(messages))

----------------------------------------------------------------------------
(* Properties of documents and search, under SpecDocs *)

SameLetter(p, c) == p = c \/ {p, c} = {"a", "A"} \/ {p, c} = {"b", "B"}

\* the characters of query other than % are found in content in their
\* order, neighbours in the query being neighbours in the content, a letter
\* matching in either case and _ matching any character
Embeds(query, content) ==
    LET lit == {k \in 1..Len(query) : query[k] # "%"}
    IN  \E f \in [lit -> 1..Len(content)] :
          /\ \A k \in lit :
               query[k] = "_" \/ SameLetter(query[k], content[f[k]])
          /\ \A j, k \in lit : j < k => f[j] < f[k]
          /\ \A k \in lit : (k + 1) \in lit => f[k + 1] = f[k] + 1

\* query is a contiguous, case-sensitive, literal substring of content
Contains(query, content) ==
    \E i \in 0..(Len(content) - Len(query)) :
        \A k \in 1..Len(query) : content[i + k] = query[k]

SearchEntry(row) == [filename |-> row.filename, excerpt |-> row.content]

\* results holds one entry per row at the positions in hit, and no other
ExactlyRows(results, hit) ==
    /\ Len(results) = Cardinality(hit)
    /\ \A i \in hit :
         Cardinality({k \in 1..Len(results) :
                        results[k] = SearchEntry(documents[i])})
           = Cardinality({j \in hit : SearchEntry(documents[j])
                                        = SearchEntry(documents[i])})

\* C5 as amended: search(U, Q) returns exactly the documents of user U
\* whose content matches Q as a LIKE pattern between two %: letters compare
\* without their ASCII case, _ stands for any one character and % for any
\* run of characters.
C5_SearchIsLikeMatch ==
    resp.op = "search" =>
        ExactlyRows(resp.out.results,
                    {i \in 1..Len(documents) :
                       /\ documents[i].user_id = resp.user_id
                       /\ Embeds(resp.query, documents[i].content)})

\* a document found by a query that differs from its content in case
C5_Witness ==
    /\ resp.op = "search"
    /\ resp.query = <<"a", "b">>
    /\ Len(resp.out.results) = 1
    /\ resp.out.results[1].excerpt = <<"A", "b">>

\* C5 as claimed: search(U, Q) returns exactly the documents of user U whose
\* content contains Q as a contiguous, case-sensitive, literal substring.
C5_Original ==
    resp.op = "search" =>
        ExactlyRows(resp.out.results,
                    {i \in 1..Len(documents) :
                       /\ documents[i].user_id = resp.user_id
                       /\ Contains(resp.query, documents[i].content)})

\* C8: GET /api/documents/{U} returns exactly one entry (id, filename,
\* created_at) per document uploaded with user_id U, none for another
\* user's, and no entry carries the content; a filename uploaded twice is
\* listed twice.
C8_ListingOfUploads ==
    resp.op = "get_documents" =>
        LET list == resp.out.documents
            mine == {i \in 1..Len(documents) :
                       documents[i].user_id = resp.user_id}
        IN  /\ Len(list) = Cardinality(mine)
            /\ \A i \in mine :
                 Cardinality({k \in 1..Len(list) :
                                list[k] = [id |-> documents[i].id,
                                           filename |-> documents[i].filename,
                                           created_at |->
                                             documents[i].created_at]}) = 1
            /\ \A k \in 1..Len(list) :
                 DOMAIN list[k] = {"id", "filename", "created_at"}

\* two uploads of one filename by one user, both listed
C8_Witness ==
    /\ resp.op = "get_documents"
    /\ Len(resp.out.documents) = 2
    /\ resp.out.documents[1].filename = resp.out.documents[2].filename
    /\ resp.out.documents[1].id # resp.out.documents[2].id

----------------------------------------------------------------------------
(* Properties of concurrent signups, under SpecConc *)

SignupsOf(email) == {p \in Procs : req[p] # None /\ req[p].email = email}

====
